---- MODULE Spec2Model ----
(***************************************************************************)
(* Model of src/environment_setup_agent.py (class EnvironmentSetupAgent):  *)
(* the tool installer (check_tool_installed / install_tool and the call    *)
(* sites that guard it), project discovery, the README section extractor   *)
(* and the tool detector.                                                  *)
(***************************************************************************)
EXTENDS Integers, Sequences, FiniteSets, TLC

VARIABLES
    sys,        \* host system: the tools whose verification command exits 0
    stack,      \* activations of install_tool, innermost last: [tool, pc, i]
    log,        \* commands and calls of the current request, in order
    site,       \* who issued the current request: "idle", "direct", "menu"
    returned,   \* <<v>> once the outermost install_tool returned v, else <<>>
    contents,   \* the remote listing self.repo.get_contents("") would return
    projects,   \* self.projects
    discovered, \* "no", "yes" (discover_projects returned), "raised"
    readme,     \* a README: its raw text and the soup of its rendering
    setup_info, \* the dictionary parse_readme returned
    origin,     \* for each list of setup_info, where each entry came from
    parsed,     \* whether parse_readme has returned
    session,    \* run_interactive: "off" (not running), "menu" (at the
                \* prompt), "busy" (in "Install a specific tool"), "setup"
                \* (in the loop of setup_environment_for_project), "guide"
                \* (printing the setup guide), "ended" (after Exit),
                \* "raised" (left by an exception)
    pending,    \* the detected tools the loop of lines 407-413 has left
    failed,     \* the tools reported "Failed to install" in this setup
    mainpc,     \* main: "off", "connect", "session", "prompt", "done"
    attempts,   \* connections attempted (EnvironmentSetupAgent(...) calls)
    failures,   \* attempts that ended in the except branch
    prompts,    \* retry prompts shown
    retry       \* the operator's answer, lowered and stripped (line 560)

ivars == <<sys, stack, log, site, returned>>
dvars == <<contents, projects, discovered>>
pvars == <<readme, setup_info, origin, parsed>>
svars == <<session, pending, failed>>
mvars == <<mainpc, attempts, failures, prompts, retry>>
vars == <<ivars, dvars, pvars, svars, mvars>>

(***************************************************************************)
(* Tool Registry: self.tools_cache["general"] (lines 36-157).  Each entry  *)
(* keeps what the installer reads: whether the installation command is the *)
(* empty string (npm, line 75) and the "dependencies" list (absent = <<>>).*)
(***************************************************************************)
ToolNames ==
    {"git", "docker", "docker-compose", "nvm", "node", "npm", "java", "maven",
     "gradle", "python3", "mongodb", "postgresql", "mysql", "redis", "vscode",
     "intellij-idea"}

tools_cache ==
    [t \in ToolNames |->
        [installation |-> IF t = "npm" THEN "" ELSE "script",
         verification |-> "verify",
         dependencies |-> CASE t = "node" -> <<"nvm">>
                            [] t = "npm"  -> <<"node">>
                            [] OTHER      -> <<>>]]

\* The tools the host state tracks and the requests name (a subset of the
\* registry holding the whole dependency chain npm -> node -> nvm and one
\* tool without dependencies), and a name that is no key of the registry.
HostTools == {"git", "nvm", "node", "npm"}
UnknownTool == "terraform"

Dependencies(t) == tools_cache[t].dependencies

RECURSIVE TransDeps(_)
TransDeps(t) ==
    LET d == {Dependencies(t)[k] : k \in 1..Len(Dependencies(t))}
    IN  d \cup UNION {TransDeps(u) : u \in d}

(***************************************************************************)
(* check_tool_installed (lines 329-349): the values a call can return on   *)
(* host state s.  Unknown tool: False.  Otherwise returncode == 0, or      *)
(* False when subprocess.run raises (lines 347-349).                       *)
(***************************************************************************)
check_tool_installed(t, s) ==
    IF t \notin DOMAIN tools_cache THEN {FALSE} ELSE {t \in s, FALSE}

(***************************************************************************)
(* subprocess.run(installation_cmd, shell=True) (line 378): the possible   *)
(* outcomes.  ok is "returncode == 0 and nothing raised"; sys is the host  *)
(* state the script leaves behind (any: there is no rollback).  The empty  *)
(* command of npm exits 0 and changes nothing.                             *)
(***************************************************************************)
RunInstallation(t, s) ==
    IF tools_cache[t].installation = ""
    THEN {[ok |-> TRUE, sys |-> s], [ok |-> FALSE, sys |-> s]}
    ELSE {[ok |-> b, sys |-> s2] : b \in BOOLEAN, s2 \in SUBSET HostTools}

\* An entry of the log.  res is the value returned (check, verify, ret),
\* whether the command exited 0 (install), or whether the tool's
\* verification command would exit 0 at the moment of the call (call).
Ev(e, t, r) == [ev |-> e, tool |-> t, res |-> r]

\* `if not self.check_tool_installed(...)` at the call sites (lines 369,
\* 408, 499): install_tool is called only when the check returned False.
\* (Faulty variants: the call made whatever the check said, or never.)
NeedsInstallAlways(checked) == TRUE
NeedsInstallNever(checked) == FALSE
NeedsInstall(checked) == ~checked

\* `if not self.install_tool(dependency): ... return False` (lines 371-373)
\* (Faulty variant: the failure of the dependency is ignored.)
AbortOnDependencyIgnored(val) == FALSE
AbortOnDependency(val) == ~val

\* `return self.check_tool_installed(tool_name)` (line 384)
\* (Faulty variant: `return True` after the installation command.)
InstallResultOptimistic(verified) == TRUE
InstallResult(verified) == verified

\* `if result.returncode != 0: ... return False` (lines 379-381) and the
\* except branch (lines 385-387)
InstallFailed(ok) == ~ok

Frame(t) == [tool |-> t, pc |-> "deps", i |-> 1]

Top == stack[Len(stack)]

(***************************************************************************)
(* The innermost activation returns val (lines 363, 373, 381, 384, 387).   *)
(* Its caller, when it is the dependency loop of an outer install_tool,    *)
(* either returns False itself (lines 371-373) or goes on to the next      *)
(* dependency.                                                             *)
(***************************************************************************)
RECURSIVE Return(_, _, _)
Return(stk, lg, val) ==
    LET lg2  == Append(lg, Ev("ret", stk[Len(stk)].tool, val))
        rest == SubSeq(stk, 1, Len(stk) - 1)
    IN  IF rest = <<>>
        THEN [stack |-> <<>>, log |-> lg2, returned |-> <<val>>]
        ELSE IF AbortOnDependency(val)
        THEN Return(rest, lg2, FALSE)
        ELSE [stack |-> [rest EXCEPT ![Len(rest)].i = @ + 1],
              log |-> lg2, returned |-> <<>>]

InstallIdle ==
    /\ sys = {}
    /\ stack = <<>>
    /\ log = <<>>
    /\ site = "idle"
    /\ returned = <<>>

InstallInit ==
    /\ sys \in SUBSET HostTools
    /\ stack = <<>>
    /\ log = <<>>
    /\ site = "idle"
    /\ returned = <<>>

SessionOff ==
    /\ session = "off"
    /\ pending = <<>>
    /\ failed = {}

MainOff ==
    /\ mainpc = "off"
    /\ attempts = 0
    /\ failures = 0
    /\ prompts = 0
    /\ retry = <<>>

\* install_tool(tool_name) called directly (lines 351-363).
InstallToolCall(t) ==
    /\ stack = <<>>
    /\ session = "off"
    /\ site' = "direct"
    /\ UNCHANGED sys
    /\ IF t \notin DOMAIN tools_cache
       THEN /\ stack' = <<>>
            /\ log' = <<Ev("call", t, FALSE), Ev("ret", t, FALSE)>>
            /\ returned' = <<FALSE>>
       ELSE /\ stack' = <<Frame(t)>>
            /\ log' = <<Ev("call", t, t \in sys)>>
            /\ returned' = <<>>
    /\ UNCHANGED <<dvars, pvars, svars, mvars>>

\* run_interactive, "Install a specific tool" (lines 489-505): the tool is
\* a key of the registry; install_tool runs only when the check fails.
MenuInstallTool(t) ==
    /\ stack = <<>>
    /\ session \in {"off", "menu"}
    /\ session' = IF session = "menu" THEN "busy" ELSE session
    /\ UNCHANGED <<pending, failed>>
    /\ t \in DOMAIN tools_cache
    /\ site' = "menu"
    /\ UNCHANGED sys
    /\ returned' = <<>>
    /\ \E c \in check_tool_installed(t, sys) :
        IF NeedsInstall(c)
        THEN /\ stack' = <<Frame(t)>>
             /\ log' = <<Ev("check", t, c), Ev("call", t, t \in sys)>>
        ELSE /\ stack' = <<>>
             /\ log' = <<Ev("check", t, c)>>
    /\ UNCHANGED <<dvars, pvars, mvars>>

\* One turn of the dependency loop of install_tool (lines 367-373).
ResolveDependency ==
    /\ stack # <<>>
    /\ Top.pc = "deps"
    /\ Top.i <= Len(Dependencies(Top.tool))
    /\ LET d == Dependencies(Top.tool)[Top.i]
       IN  \E c \in check_tool_installed(d, sys) :
            IF NeedsInstall(c)
            THEN /\ stack' = Append(stack, Frame(d))
                 /\ log' = log \o <<Ev("check", d, c), Ev("call", d, d \in sys)>>
            ELSE /\ stack' = [stack EXCEPT ![Len(stack)].i = @ + 1]
                 /\ log' = Append(log, Ev("check", d, c))
    /\ UNCHANGED <<sys, site, returned>>
    /\ UNCHANGED <<dvars, pvars, svars, mvars>>

\* The installation command (lines 375-381, 385-387).
RunInstall ==
    /\ stack # <<>>
    /\ Top.pc = "deps"
    /\ Top.i > Len(Dependencies(Top.tool))
    /\ \E o \in RunInstallation(Top.tool, sys) :
        LET lg == Append(log, Ev("install", Top.tool, o.ok))
        IN  /\ sys' = o.sys
            /\ IF InstallFailed(o.ok)
               THEN LET r == Return(stack, lg, FALSE)
                    IN  /\ stack' = r.stack
                        /\ log' = r.log
                        /\ returned' = r.returned
               ELSE /\ stack' = [stack EXCEPT ![Len(stack)].pc = "verify"]
                    /\ log' = lg
                    /\ returned' = returned
    /\ UNCHANGED site
    /\ UNCHANGED <<dvars, pvars, svars, mvars>>

\* The verification after the installation (line 384).
VerifyInstall ==
    /\ stack # <<>>
    /\ Top.pc = "verify"
    /\ \E c \in check_tool_installed(Top.tool, sys) :
        LET r == Return(stack, Append(log, Ev("verify", Top.tool, c)),
                        InstallResult(c))
        IN  /\ stack' = r.stack
            /\ log' = r.log
            /\ returned' = r.returned
    /\ UNCHANGED <<sys, site>>
    /\ UNCHANGED <<dvars, pvars, svars, mvars>>

InstallNext ==
    \/ \E t \in HostTools \cup {UnknownTool} : InstallToolCall(t)
    \/ \E t \in HostTools : MenuInstallTool(t)
    \/ ResolveDependency
    \/ RunInstall
    \/ VerifyInstall

(***************************************************************************)
(* Properties of the installer.                                            *)
(***************************************************************************)
Idx == 1..Len(log)

Has(e, t) == \E k \in Idx : log[k].ev = e /\ log[k].tool = t

\* The innermost install_tool has resolved its dependencies and is at the
\* installation command of t (line 378).
AboutToInstall(t) ==
    /\ stack # <<>>
    /\ Top.tool = t
    /\ Top.pc = "deps"
    /\ Top.i > Len(Dependencies(t))

\* C1, as stated: a call of install_tool for a tool whose verification
\* command exits 0 at the time of the call never runs that tool's
\* installation command and returns True.
C1_InstallToolShortCircuits ==
    \A i \in Idx :
        (log[i].ev = "call" /\ log[i].res) =>
            \A j \in Idx :
                (j > i /\ log[j].tool = log[i].tool) =>
                    /\ log[j].ev # "install"
                    /\ (log[j].ev = "ret" => log[j].res)

\* C1, amended: the short-circuit lives at the call sites.  A tool whose
\* check returned True at a call site (menu, dependency loop) is neither
\* passed to install_tool nor installed later in that request, and every
\* install_tool call made by a call site directly follows a check of the
\* same tool that returned False.
C1_CallSitesShortCircuit ==
    /\ \A i \in Idx :
        (log[i].ev = "check" /\ log[i].res) =>
            \A j \in Idx :
                (j > i /\ log[j].tool = log[i].tool) =>
                    log[j].ev \notin {"call", "install"}
    /\ \A i \in Idx :
        (log[i].ev = "call" /\ (i > 1 \/ site # "direct")) =>
            /\ i > 1
            /\ log[i - 1] = Ev("check", log[i].tool, FALSE)

\* C1 witness: a dependency verified at its check, and the request went on
\* to succeed without a call for it.
C1_Witness ==
    /\ returned = <<TRUE>>
    /\ \E i \in Idx : log[i] = Ev("check", "node", TRUE)
    /\ Has("install", "npm")

\* The calls that are still open just before entry i of the log.
OpenCalls(i) ==
    {j \in 1..(i - 1) :
        /\ log[j].ev = "call"
        /\ ~ \E k \in (j + 1)..(i - 1) :
                log[k].ev = "ret" /\ log[k].tool = log[j].tool}

\* C2: when install_tool of a dependency returns False (at any depth),
\* every enclosing install_tool returns False without running its own
\* installation command; so does the outermost one.
C2_FailedDependencyAborts ==
    \A i \in Idx :
        (log[i].ev = "ret" /\ ~log[i].res) =>
            \A j \in OpenCalls(i) :
                log[j].tool # log[i].tool =>
                    /\ ~Has("install", log[j].tool)
                    /\ \E k \in Idx :
                        k > i /\ log[k] = Ev("ret", log[j].tool, FALSE)
                    /\ returned = <<FALSE>>

\* C2 witness: nvm, two levels down, failed to install under npm.
C2_Witness ==
    /\ log # <<>>
    /\ log[1].tool = "npm"
    /\ \E i \in Idx : log[i] = Ev("ret", "nvm", FALSE)
    /\ Has("install", "nvm")
    /\ returned = <<FALSE>>

Count(e, t) == Cardinality({k \in Idx : log[k].ev = e /\ log[k].tool = t})

\* C3: install_tool returns True only right after its installation command
\* exited 0 and the verification that followed returned True; a failed
\* installation command or a failed verification is followed at once by
\* the return of False; neither command runs twice for a tool.
C3_SuccessNeedsInstallAndVerify ==
    /\ \A i \in Idx :
        (log[i].ev = "ret" /\ log[i].res) =>
            /\ i >= 3
            /\ log[i - 1] = Ev("verify", log[i].tool, TRUE)
            /\ log[i - 2] = Ev("install", log[i].tool, TRUE)
    /\ \A i \in Idx :
        (log[i].ev \in {"install", "verify"} /\ ~log[i].res) =>
            /\ i < Len(log)
            /\ log[i + 1] = Ev("ret", log[i].tool, FALSE)
    /\ \A t \in HostTools : Count("install", t) <= 1 /\ Count("verify", t) <= 1

\* C3 witness: node's installation command exited 0, the verification that
\* followed returned True, and the request returned True.
C3_Witness ==
    /\ returned = <<TRUE>>
    /\ \E i \in Idx : log[i] = Ev("install", "node", TRUE)
    /\ \E i \in Idx : log[i] = Ev("verify", "node", TRUE)

\* C4, as stated: no installation command of a tool runs while one of its
\* transitive dependencies fails verification and has had no installation
\* attempt.
C4_TransitiveDepsEnsured ==
    \A t \in HostTools :
        AboutToInstall(t) =>
            \A d \in TransDeps(t) : d \in sys \/ Has("install", d)

\* C4, amended to direct dependencies: before the installation command of
\* a tool runs, each direct dependency either passed its check or was
\* installed by a nested install_tool that returned True; installation
\* commands along the chain run innermost dependency first.
C4_DirectDepsEnsured ==
    \A i \in Idx :
        log[i].ev = "install" =>
            /\ \A k \in 1..Len(Dependencies(log[i].tool)) :
                LET d == Dependencies(log[i].tool)[k]
                IN  \E j \in 1..(i - 1) :
                        \/ log[j] = Ev("check", d, TRUE)
                        \/ log[j] = Ev("ret", d, TRUE)
            /\ \A j \in Idx :
                (log[j].ev = "install" /\ log[j].tool \in TransDeps(log[i].tool))
                    => j < i

\* C4 witness: the whole chain was installed, nvm, then node, then npm.
C4_Witness ==
    \E i, j, k \in Idx :
        /\ i < j /\ j < k
        /\ log[i].ev = "install" /\ log[i].tool = "nvm"
        /\ log[j].ev = "install" /\ log[j].tool = "node"
        /\ log[k].ev = "install" /\ log[k].tool = "npm"


(***************************************************************************)
(* Project discovery: discover_projects (lines 159-180).                   *)
(***************************************************************************)
MaxEntries == 3

EntryNames == 1..MaxEntries

\* What self.repo.get_contents(f"{path}/README.md") and the decoding of its
\* content do for an entry (lines 170-174): "ok", or an exception, either
\* the README is missing ("notfound") or anything else ("error").
ProbeOutcomes == {"ok", "notfound", "error"}

Entries ==
    [name : EntryNames, type : {"dir", "file"}, probe : ProbeOutcomes]

\* Remote listings: entries with distinct names, in any order.
Listings ==
    {cs \in UNION {[1..n -> Entries] : n \in 0..MaxEntries} :
        \A i, j \in 1..Len(cs) : i # j => cs[i].name # cs[j].name}

\* The decoded text of <dir>/README.md.
ReadmeOf(name) == <<"README", name>>

\* The dictionary appended at lines 171-175.
Project(c) ==
    [name |-> c.name, path |-> c.name, readme_content |-> ReadmeOf(c.name)]

\* `except Exception: continue` (lines 176-178): whether the loop goes on
\* after a probe ended with the given outcome.
\* (Faulty variant: only a missing README is skipped.)
ContinuesAfterOnlyNotFound(outcome) == outcome # "error"
ContinuesAfter(outcome) == TRUE

\* `if content.type == "dir"` (line 168)
IsProbed(c) == c.type = "dir"

\* The loop of lines 167-178 over the rest cs of the listing.
RECURSIVE ScanContents(_, _)
ScanContents(cs, acc) ==
    IF cs = <<>> THEN acc
    ELSE LET c == Head(cs)
         IN  IF ~IsProbed(c) THEN ScanContents(Tail(cs), acc)
             ELSE IF c.probe = "ok"
             THEN ScanContents(Tail(cs), Append(acc, Project(c)))
             ELSE IF ContinuesAfter(c.probe)
             THEN ScanContents(Tail(cs), acc)
             ELSE acc

DiscoverInit ==
    /\ contents \in Listings
    /\ projects = <<>>
    /\ discovered = "no"

DiscoverIdle ==
    /\ contents = <<>>
    /\ projects = <<>>
    /\ discovered = "no"

\* discover_projects: the listing is fetched (line 163), self.projects is
\* reset (line 164) and filled (lines 167-178).
DiscoverProjects ==
    /\ projects' = ScanContents(contents, <<>>)
    /\ discovered' = "yes"
    /\ UNCHANGED contents
    /\ UNCHANGED <<ivars, pvars, svars, mvars>>

\* discover_projects when get_contents("") raises at line 163: the
\* exception leaves the method before self.projects is touched.
DiscoverListingFails ==
    /\ discovered' = "raised"
    /\ UNCHANGED <<contents, projects>>
    /\ UNCHANGED <<ivars, pvars, svars, mvars>>

DiscoverNext ==
    \/ DiscoverProjects
    \/ DiscoverListingFails

\* The entries of the listing that are directories with a README.
WithReadme == {i \in DOMAIN contents :
                    contents[i].type = "dir" /\ contents[i].probe = "ok"}

\* The position in the listing of the entry a project was made from.
ListingIndex(p) == CHOOSE i \in DOMAIN contents : contents[i].name = p.name

\* C5: after discover_projects returns, the projects are exactly the
\* directory entries whose README was fetched, one each, in the order of
\* the listing; files and directories whose probe failed are absent and
\* stop nothing.
C5_DiscoveryFiltersInOrder ==
    discovered = "yes" =>
        /\ Len(projects) = Cardinality(WithReadme)
        /\ \A k \in DOMAIN projects :
            /\ \E i \in WithReadme : projects[k] = Project(contents[i])
            /\ \A m \in DOMAIN projects :
                k < m => ListingIndex(projects[k]) < ListingIndex(projects[m])
        /\ \A i \in WithReadme :
            \E k \in DOMAIN projects : projects[k].name = contents[i].name

\* C5 witness: a directory whose probe raised and a file precede a
\* directory with a README, which was discovered after another one listed
\* under a larger name.
C5_Witness ==
    /\ discovered = "yes"
    /\ Len(contents) = 3
    /\ contents[1].type = "dir" /\ contents[1].probe = "error"
    /\ contents[2].type = "dir" /\ contents[2].probe = "ok"
    /\ contents[3].type = "dir" /\ contents[3].probe = "ok"
    /\ contents[2].name > contents[3].name
    /\ Len(projects) = 2

(***************************************************************************)
(* Text.  A text is a sequence of one-character strings, so that           *)
(* str.lower(), str.strip(), `term in text` and re.search are computed.    *)
(***************************************************************************)
UpperChars == <<"A", "B", "C", "D", "E", "F", "G", "H", "I", "J", "K", "L", "M", "N", "O", "P", "Q", "R", "S", "T", "U", "V", "W", "X", "Y", "Z">>
LowerChars == <<"a", "b", "c", "d", "e", "f", "g", "h", "i", "j", "k", "l", "m", "n", "o", "p", "q", "r", "s", "t", "u", "v", "w", "x", "y", "z">>
DigitChars == <<"0", "1", "2", "3", "4", "5", "6", "7", "8", "9">>

Range(f) == {f[k] : k \in DOMAIN f}

\* str.lower() on one character, and on a text (line 206).
LowerChar(c) ==
    IF \E k \in DOMAIN UpperChars : UpperChars[k] = c
    THEN LowerChars[CHOOSE k \in DOMAIN UpperChars : UpperChars[k] = c]
    ELSE c

Lower(text) == [k \in DOMAIN text |-> LowerChar(text[k])]

\* `term in text` (lines 208, 222, 235, 248, 261): substring search.
Contains(term, text) ==
    \E k \in 1..(Len(text) - Len(term) + 1) :
        SubSeq(text, k, k + Len(term) - 1) = term

Whitespace == {" ", "\n", "\t"}

\* str.strip() (lines 216, 218, 228, 231, ...).
RECURSIVE LStrip(_)
LStrip(text) ==
    IF text # <<>> /\ Head(text) \in Whitespace THEN LStrip(Tail(text)) ELSE text

RECURSIVE RStrip(_)
RStrip(text) ==
    IF text # <<>> /\ text[Len(text)] \in Whitespace
    THEN RStrip(SubSeq(text, 1, Len(text) - 1))
    ELSE text

Strip(text) == RStrip(LStrip(text))

(***************************************************************************)
(* README section extractor: parse_readme (lines 182-277).  The soup is    *)
(* the sequence of sibling nodes BeautifulSoup makes of the rendered       *)
(* markdown; a node is [name, text, items]: its tag name ("none" for a     *)
(* bare string), its .text, and the .text of each <li> below it.           *)
(***************************************************************************)
MaxNodes == 3

\* find_all(['h1', 'h2', 'h3', 'h4']) (line 205) and the tags that end a
\* section (lines 212, 225, 238, 251, 264).
HeadingTags == {"h1", "h2", "h3", "h4"}

\* The heading tags of HTML.
AllHeadingTags == {"h1", "h2", "h3", "h4", "h5", "h6"}

\* The keys of setup_info (lines 196-202), in the order of the branches
\* of the if/elif chain (lines 208, 222, 235, 248, 261).
Buckets ==
    <<"prerequisites", "environment_setup", "database_setup",
      "running_instructions", "ide_setup">>

\* (Faulty variant of the branch order: database before setup.)
BucketsDatabaseFirst ==
    <<"prerequisites", "database_setup", "environment_setup",
      "running_instructions", "ide_setup">>

BranchOrder == Buckets

\* The terms of each branch.
Terms(b) ==
    CASE b = "prerequisites" ->
            {<<"p", "r", "e", "r", "e", "q", "u", "i", "s", "i", "t", "e">>,
             <<"r", "e", "q", "u", "i", "r", "e", "m", "e", "n", "t">>,
             <<"d", "e", "p", "e", "n", "d">>,
             <<"t", "o", "o", "l">>,
             <<"s", "o", "f", "t", "w", "a", "r", "e">>}
      [] b = "environment_setup" ->
            {<<"s", "e", "t", "u", "p">>,
             <<"i", "n", "s", "t", "a", "l", "l">>,
             <<"c", "o", "n", "f", "i", "g", "u", "r">>,
             <<"e", "n", "v", "i", "r", "o", "n">>}
      [] b = "database_setup" ->
            {<<"d", "a", "t", "a", "b", "a", "s", "e">>,
             <<"d", "b">>,
             <<"d", "a", "t", "a">>}
      [] b = "running_instructions" ->
            {<<"r", "u", "n">>,
             <<"s", "t", "a", "r", "t">>,
             <<"e", "x", "e", "c", "u", "t", "e">>}
      [] b = "ide_setup" ->
            {<<"i", "d", "e">>,
             <<"i", "n", "t", "e", "l", "l", "i", "j">>,
             <<"e", "c", "l", "i", "p", "s", "e">>,
             <<"v", "s", "c", "o", "d", "e">>,
             <<"e", "d", "i", "t", "o", "r">>}

\* any(term in heading_text for term in [...])
MatchesBranch(b, heading_text) ==
    \E term \in Terms(b) : Contains(term, heading_text)

\* The branch of the if/elif chain taken for a heading, "none" if none.
RECURSIVE FirstBranch(_, _, _)
FirstBranch(order, k, heading_text) ==
    IF k > Len(order) THEN "none"
    ELSE IF MatchesBranch(order[k], heading_text) THEN order[k]
    ELSE FirstBranch(order, k + 1, heading_text)

Classify(text) ==
    LET heading_text == Lower(text)
    IN  FirstBranch(BranchOrder, 1, heading_text)

\* `if sibling.name in ['h1', 'h2', 'h3', 'h4']: break`
\* (Faulty variant: only h1 and h2 end a section.)
StopsCaptureTopLevels(node) == node.name \in {"h1", "h2"}
StopsCapture(node) == node.name \in HeadingTags

\* The tags whose .text.strip() is appended as one entry: 'p' in the
\* prerequisites branch (line 217), 'p', 'pre', 'code' in the others
\* (lines 227, 240, 253, 266).
TextTags(b) == IF b = "prerequisites" THEN {"p"} ELSE {"p", "pre", "code"}

\* The tags whose <li> each give one entry (lines 214, 229, 242, 255, 268).
ListTags(b) == {"ul"}

\* An entry: the stripped text, with the heading, the sibling and the item
\* it was taken from.
Entry(text, h, n, k) == [text |-> Strip(text), heading |-> h, node |-> n, item |-> k]

\* What one sibling adds to `content` in branch b.
Contribution(b, soup, h, n) ==
    IF soup[n].name \in ListTags(b)
    THEN [k \in DOMAIN soup[n].items |-> Entry(soup[n].items[k], h, n, k)]
    ELSE IF soup[n].name \in TextTags(b)
    THEN <<Entry(soup[n].text, h, n, 0)>>
    ELSE <<>>

\* `for sibling in heading.next_siblings` from sibling n on.
RECURSIVE Collect(_, _, _, _, _)
Collect(b, soup, h, n, content) ==
    IF n > Len(soup) THEN content
    ELSE IF StopsCapture(soup[n]) THEN content
    ELSE Collect(b, soup, h, n + 1, content \o Contribution(b, soup, h, n))

\* setup_info[...].extend(content) (lines 220, 233, 246, 259, 272)
\* (Faulty variant: assignment instead of extend.)
ExtendOverwrites(bucket, content) == content
Extend(bucket, content) == bucket \o content

\* `for heading in soup.find_all([...])` from node h on.
RECURSIVE ParseHeadings(_, _, _)
ParseHeadings(soup, h, info) ==
    IF h > Len(soup) THEN info
    ELSE IF soup[h].name \notin HeadingTags THEN ParseHeadings(soup, h + 1, info)
    ELSE LET b == Classify(soup[h].text)
         IN  IF b = "none" THEN ParseHeadings(soup, h + 1, info)
             ELSE ParseHeadings(soup, h + 1,
                    [info EXCEPT ![b] =
                        Extend(@, Collect(b, soup, h, h + 1, <<>>))])

EmptyInfo == [b \in Range(Buckets) |-> <<>>]

\* The five lists of parse_readme's result, each entry with its origin.
Sections(soup) == ParseHeadings(soup, 1, EmptyInfo)

TextsOf(entries) == [k \in DOMAIN entries |-> entries[k].text]

(***************************************************************************)
(* Tool detector: detect_tools (lines 279-313).  Every pattern of          *)
(* tool_patterns is an alternation of literals between two \b, with        *)
(* optional groups and character classes; alts lists the literals each     *)
(* pattern accepts, in lower case (re.IGNORECASE).                         *)
(***************************************************************************)
\* (Faulty variant of the table below: the key "python" for "python3".)
tool_patterns_python ==
    <<
      [tool |-> "java",
       alts |-> {<<"j", "a", "v", "a">>,
                 <<"j", "d", "k">>,
                 <<"j", "r", "e">>}],
      [tool |-> "maven",
       alts |-> {<<"m", "a", "v", "e", "n">>,
                 <<"m", "v", "n">>}],
      [tool |-> "gradle",
       alts |-> {<<"g", "r", "a", "d", "l", "e">>}],
      [tool |-> "node",
       alts |-> {<<"n", "o", "d", "e">>,
                 <<"n", "o", "d", "e", "j", "s">>}],
      [tool |-> "npm",
       alts |-> {<<"n", "p", "m">>}],
      [tool |-> "python",
       alts |-> {<<"p", "y", "t", "h", "o", "n">>,
                 <<"p", "y", "t", "h", "o", "n", "3">>,
                 <<"p", "i", "p">>,
                 <<"p", "i", "p", "3">>}],
      [tool |-> "docker",
       alts |-> {<<"d", "o", "c", "k", "e", "r">>}],
      [tool |-> "docker-compose",
       alts |-> {<<"d", "o", "c", "k", "e", "r", " ", "c", "o", "m", "p", "o", "s", "e">>,
                 <<"d", "o", "c", "k", "e", "r", "-", "c", "o", "m", "p", "o", "s", "e">>}],
      [tool |-> "git",
       alts |-> {<<"g", "i", "t">>}],
      [tool |-> "mongodb",
       alts |-> {<<"m", "o", "n", "g", "o">>,
                 <<"m", "o", "n", "g", "o", "d", "b">>}],
      [tool |-> "postgresql",
       alts |-> {<<"p", "o", "s", "t", "g", "r", "e">>,
                 <<"p", "o", "s", "t", "g", "r", "e", "s">>,
                 <<"p", "o", "s", "t", "g", "r", "e", "s", "q", "l">>}],
      [tool |-> "mysql",
       alts |-> {<<"m", "y", "s", "q", "l">>}],
      [tool |-> "redis",
       alts |-> {<<"r", "e", "d", "i", "s">>}],
      [tool |-> "vscode",
       alts |-> {<<"v", "s", "c", "o", "d", "e">>,
                 <<"v", "s", " ", "c", "o", "d", "e">>,
                 <<"v", "i", "s", "u", "a", "l", " ", "s", "t", "u", "d", "i", "o", " ", "c", "o", "d", "e">>}],
      [tool |-> "intellij-idea",
       alts |-> {<<"i", "n", "t", "e", "l", "l", "i", "j">>,
                 <<"i", "d", "e", "a">>}]
    >>

tool_patterns ==
    <<
      [tool |-> "java",
       alts |-> {<<"j", "a", "v", "a">>,
                 <<"j", "d", "k">>,
                 <<"j", "r", "e">>}],
      [tool |-> "maven",
       alts |-> {<<"m", "a", "v", "e", "n">>,
                 <<"m", "v", "n">>}],
      [tool |-> "gradle",
       alts |-> {<<"g", "r", "a", "d", "l", "e">>}],
      [tool |-> "node",
       alts |-> {<<"n", "o", "d", "e">>,
                 <<"n", "o", "d", "e", "j", "s">>}],
      [tool |-> "npm",
       alts |-> {<<"n", "p", "m">>}],
      [tool |-> "python3",
       alts |-> {<<"p", "y", "t", "h", "o", "n">>,
                 <<"p", "y", "t", "h", "o", "n", "3">>,
                 <<"p", "i", "p">>,
                 <<"p", "i", "p", "3">>}],
      [tool |-> "docker",
       alts |-> {<<"d", "o", "c", "k", "e", "r">>}],
      [tool |-> "docker-compose",
       alts |-> {<<"d", "o", "c", "k", "e", "r", " ", "c", "o", "m", "p", "o", "s", "e">>,
                 <<"d", "o", "c", "k", "e", "r", "-", "c", "o", "m", "p", "o", "s", "e">>}],
      [tool |-> "git",
       alts |-> {<<"g", "i", "t">>}],
      [tool |-> "mongodb",
       alts |-> {<<"m", "o", "n", "g", "o">>,
                 <<"m", "o", "n", "g", "o", "d", "b">>}],
      [tool |-> "postgresql",
       alts |-> {<<"p", "o", "s", "t", "g", "r", "e">>,
                 <<"p", "o", "s", "t", "g", "r", "e", "s">>,
                 <<"p", "o", "s", "t", "g", "r", "e", "s", "q", "l">>}],
      [tool |-> "mysql",
       alts |-> {<<"m", "y", "s", "q", "l">>}],
      [tool |-> "redis",
       alts |-> {<<"r", "e", "d", "i", "s">>}],
      [tool |-> "vscode",
       alts |-> {<<"v", "s", "c", "o", "d", "e">>,
                 <<"v", "s", " ", "c", "o", "d", "e">>,
                 <<"v", "i", "s", "u", "a", "l", " ", "s", "t", "u", "d", "i", "o", " ", "c", "o", "d", "e">>}],
      [tool |-> "intellij-idea",
       alts |-> {<<"i", "n", "t", "e", "l", "l", "i", "j">>,
                 <<"i", "d", "e", "a">>}]
    >>

\* \w of the re module, for the characters of the model's texts.
WordChars ==
    Range(UpperChars) \cup Range(LowerChars) \cup Range(DigitChars) \cup {"_"}

\* (Faulty variant of MatchesAt below: re.IGNORECASE left out.)
MatchesAtCaseSensitive(alt, text, k) ==
    LET last == k + Len(alt) - 1
    IN  /\ last <= Len(text)
        /\ SubSeq(text, k, last) = alt
        /\ (k = 1 \/ text[k - 1] \notin WordChars)
        /\ (last = Len(text) \/ text[last + 1] \notin WordChars)

\* The literal alt matches at position k of text, between two \b: every
\* literal starts and ends with a word character, so \b holds where the
\* neighbouring character is missing or is no word character.
MatchesAt(alt, text, k) ==
    LET last == k + Len(alt) - 1
    IN  /\ last <= Len(text)
        /\ Lower(SubSeq(text, k, last)) = alt
        /\ (k = 1 \/ text[k - 1] \notin WordChars)
        /\ (last = Len(text) \/ text[last + 1] \notin WordChars)

\* re.search(pattern, readme_content, re.IGNORECASE) (line 310)
Search(alts, text) ==
    \E alt \in alts : \E k \in DOMAIN text : MatchesAt(alt, text, k)

\* The loop of lines 309-311 from pattern k on.
RECURSIVE DetectFrom(_, _, _)
DetectFrom(k, text, tools) ==
    IF k > Len(tool_patterns) THEN tools
    ELSE DetectFrom(k + 1, text,
            IF Search(tool_patterns[k].alts, text)
            THEN Append(tools, tool_patterns[k].tool)
            ELSE tools)

detect_tools(readme_content) == DetectFrom(1, readme_content, <<>>)

\* parse_readme: the five lists and detected_tools (line 275).
parse_readme(rd) ==
    LET sections == Sections(rd.soup)
    IN  [b \in Range(Buckets) \cup {"detected_tools"} |->
            IF b = "detected_tools" THEN detect_tools(rd.text)
            ELSE TextsOf(sections[b])]

(***************************************************************************)
(* The READMEs parsed.                                                     *)
(***************************************************************************)
Node(name, text, items) == [name |-> name, text |-> text, items |-> items]

HeadingNodes ==
    {Node("h2", <<"S", "e", "t", "u", "p">>, <<>>),
     Node("h3", <<"P", "r", "e", "r", "e", "q", "u", "i", "s", "i", "t", "e", "s">>, <<>>),
     Node("h1", <<"L", "i", "c", "e", "n", "s", "e">>, <<>>),
     Node("h5", <<"R", "u", "n">>, <<>>)}

ContentNodes ==
    {Node("p", <<" ", "a", " ">>, <<>>),
     Node("pre", <<"b", "\n">>, <<>>),
     Node("code", <<"c">>, <<>>),
     Node("ul", <<>>, <<<<" ", "a">>, <<"d", " ">>>>),
     Node("ol", <<>>, <<<<"e">>>>),
     Node("none", <<"\n">>, <<>>)}

\* Heading texts, several of them with terms of more than one branch.
HeadingTexts ==
    {<<"P", "r", "e", "r", "e", "q", "u", "i", "s", "i", "t", "e", "s">>,
     <<"S", "e", "t", "u", "p">>,
     <<"I", "n", "s", "t", "a", "l", "l", " ", "T", "o", "o", "l", "s">>,
     <<"D", "a", "t", "a", "b", "a", "s", "e", " ", "S", "e", "t", "u", "p">>,
     <<"S", "t", "a", "r", "t", " ", "D", "a", "t", "a", "b", "a", "s", "e">>,
     <<"R", "u", "n", " ", "I", "D", "E">>,
     <<"I", "D", "E">>,
     <<"L", "i", "c", "e", "n", "s", "e">>,
     <<"F", "e", "e", "d", "b", "a", "c", "k">>,
     <<"G", "e", "t", "t", "i", "n", "g", " ", "S", "t", "a", "r", "t", "e", "d">>}

\* Soups of up to MaxNodes nodes; soups of two sections; soups of one or
\* two sections under each heading text.
Soups ==
    UNION {[1..n -> HeadingNodes \cup ContentNodes] : n \in 0..MaxNodes}
    \cup {<<h1, c1, h2, c2>> :
            h1 \in HeadingNodes, c1 \in ContentNodes,
            h2 \in HeadingNodes, c2 \in ContentNodes}
    \cup {<<Node("h2", t, <<>>), Node("p", <<" ", "a", " ">>, <<>>)>> : t \in HeadingTexts}
    \cup {<<Node("h2", t1, <<>>), Node("p", <<" ", "a", " ">>, <<>>),
            Node("h3", t2, <<>>), Node("ul", <<>>, <<<<"d", " ">>>>)>> :
            t1 \in HeadingTexts, t2 \in HeadingTexts}

\* Raw texts: a word, alone or between two other characters.
Words ==
    {<<"D", "o", "c", "k", "e", "r", "-", "C", "o", "m", "p", "o", "s", "e">>,
     <<"d", "o", "c", "k", "e", "r", " ", "c", "o", "m", "p", "o", "s", "e">>,
     <<"N", "o", "d", "e", "J", "S">>,
     <<"n", "p", "m">>,
     <<"P", "y", "t", "h", "o", "n", "3">>,
     <<"p", "i", "p">>,
     <<"P", "o", "s", "t", "g", "r", "e", "s">>,
     <<"M", "o", "n", "g", "o", "D", "B">>,
     <<"V", "S", " ", "C", "o", "d", "e">>,
     <<"I", "D", "E", "A">>,
     <<"i", "n", "t", "e", "l", "l", "i", "j">>,
     <<"j", "d", "k">>,
     <<"m", "v", "n">>,
     <<"g", "r", "a", "d", "l", "e">>,
     <<"g", "i", "t">>,
     <<"m", "y", "s", "q", "l">>,
     <<"r", "e", "d", "i", "s">>,
     <<"n", "v", "m">>,
     <<"t", "e", "r", "r", "a", "f", "o", "r", "m">>,
     <<>>}

Affixes == {<<>>, <<"x">>, <<" ">>, <<"_">>, <<"-">>}

RawTexts == {p \o w \o s : p \in Affixes, w \in Words, s \in Affixes}

SoupTexts == {<<"n", "o", "d", "e">>, <<>>}

Readmes ==
    {[text |-> t, soup |-> d] : t \in SoupTexts, d \in Soups}
    \cup {[text |-> t, soup |-> <<>>] : t \in RawTexts}

ParseInit ==
    /\ readme \in Readmes
    /\ parsed = FALSE
    /\ setup_info = [b \in Range(Buckets) \cup {"detected_tools"} |-> <<>>]
    /\ origin = EmptyInfo

ParseIdle ==
    /\ readme = [text |-> <<>>, soup |-> <<>>]
    /\ parsed = FALSE
    /\ setup_info = [b \in Range(Buckets) \cup {"detected_tools"} |-> <<>>]
    /\ origin = EmptyInfo

\* setup_info = self.parse_readme(project["readme_content"]) (line 404,
\* line 325).  parse_readme keeps nothing between calls (setup_info is a
\* fresh dictionary, lines 196-202), so one call per README is followed.
ParseReadme ==
    /\ ~parsed
    /\ setup_info' = parse_readme(readme)
    /\ origin' = Sections(readme.soup)
    /\ parsed' = TRUE
    /\ UNCHANGED readme
    /\ UNCHANGED <<ivars, dvars, svars, mvars>>

ParseNext == ParseReadme

(***************************************************************************)
(* Properties of the section extractor and the tool detector.              *)
(***************************************************************************)
Soup == readme.soup

BucketNames == Range(Buckets)

\* The siblings a heading at h captures from: those after it, up to the
\* first one whose tag is in `stops`.
Region(h, stops) ==
    {n \in (h + 1)..Len(Soup) :
        \A m \in (h + 1)..n : Soup[m].name \notin stops}

\* The headings the extractor visits whose branch is b.
HeadingsOf(b) ==
    {h \in DOMAIN Soup :
        Soup[h].name \in HeadingTags /\ Classify(Soup[h].text) = b}

\* The priority order of the five categories.
C6_Priority ==
    <<"prerequisites", "environment_setup", "database_setup",
      "running_instructions", "ide_setup">>

C6_FirstMatching(text) ==
    LET m == {k \in DOMAIN C6_Priority :
                MatchesBranch(C6_Priority[k], Lower(text))}
    IN  IF m = {} THEN "none"
        ELSE C6_Priority[CHOOSE k \in m : \A k2 \in m : k <= k2]

\* C6: every entry of a bucket was captured under a heading whose first
\* matching category, in the order prerequisites, setup, database, run,
\* ide, is that bucket; and a heading followed by a paragraph does
\* contribute to the bucket of its first matching category.
C6_FirstMatchingCategoryWins ==
    parsed =>
        /\ \A b \in BucketNames : \A j \in DOMAIN origin[b] :
            C6_FirstMatching(Soup[origin[b][j].heading].text) = b
        /\ \A h \in DOMAIN Soup :
            (/\ Soup[h].name \in HeadingTags
             /\ C6_FirstMatching(Soup[h].text) # "none"
             /\ h < Len(Soup)
             /\ Soup[h + 1].name = "p") =>
                \E j \in DOMAIN origin[C6_FirstMatching(Soup[h].text)] :
                    origin[C6_FirstMatching(Soup[h].text)][j].heading = h

\* C6 witness: "Database Setup" has terms of the setup and of the database
\* branch; its paragraph went to environment_setup alone.
C6_Witness ==
    /\ parsed
    /\ Len(Soup) = 2
    /\ Soup[1].text = <<"D", "a", "t", "a", "b", "a", "s", "e", " ", "S", "e", "t", "u", "p">>
    /\ setup_info["environment_setup"] = <<<<"a">>>>
    /\ setup_info["database_setup"] = <<>>

Before(e1, e2) ==
    \/ e1.heading < e2.heading
    \/ e1.heading = e2.heading /\ e1.node < e2.node
    \/ e1.heading = e2.heading /\ e1.node = e2.node /\ e1.item < e2.item

\* C8: each bucket holds, in document order, the entries of every heading
\* of its category: the paragraphs and list items under each such heading
\* are all there, earlier sections before later ones, and the list of
\* texts has one text per entry (equal texts are kept).
C8_SectionsAccumulate ==
    parsed =>
        \A b \in BucketNames :
            /\ setup_info[b] = TextsOf(origin[b])
            /\ \A i, j \in DOMAIN origin[b] :
                i < j => Before(origin[b][i], origin[b][j])
            /\ \A h \in HeadingsOf(b) : \A n \in Region(h, HeadingTags) :
                /\ Soup[n].name = "p" =>
                    \E j \in DOMAIN origin[b] :
                        origin[b][j] = Entry(Soup[n].text, h, n, 0)
                /\ Soup[n].name = "ul" =>
                    \A k \in DOMAIN Soup[n].items :
                        \E j \in DOMAIN origin[b] :
                            origin[b][j] = Entry(Soup[n].items[k], h, n, k)

\* C8 witness: two "Setup" sections; the second one's items follow the
\* first one's paragraph, the repeated text "a" included.
C8_Witness ==
    /\ parsed
    /\ Len(Soup) = 4
    /\ Soup[1].text = <<"S", "e", "t", "u", "p">> /\ Soup[3].text = <<"S", "e", "t", "u", "p">>
    /\ Soup[1].name = "h2" /\ Soup[3].name = "h2"
    /\ setup_info["environment_setup"] = <<<<"a">>, <<"a">>, <<"d">>>>

\* The entries of bucket b taken from sibling n under heading h, in order.
FromNode(b, h, n) ==
    SelectSeq(origin[b], LAMBDA e : e.heading = h /\ e.node = n)

\* C9: under a classified heading of any category, each p, pre and code
\* sibling of the captured region gives exactly one entry, its trimmed
\* text, and each list gives exactly one entry per item.
C9_UniformContribution ==
    parsed =>
        \A b \in BucketNames : \A h \in HeadingsOf(b) :
            \A n \in Region(h, HeadingTags) :
                /\ Soup[n].name \in {"p", "pre", "code"} =>
                    TextsOf(FromNode(b, h, n)) = <<Strip(Soup[n].text)>>
                /\ Soup[n].name \in {"ul", "ol"} =>
                    TextsOf(FromNode(b, h, n)) =
                        [k \in DOMAIN Soup[n].items |-> Strip(Soup[n].items[k])]

\* C10: every detected tool is a key of the registry.
C10_DetectedToolsKnown ==
    parsed => Range(setup_info["detected_tools"]) \subseteq DOMAIN tools_cache

\* C10 witness: a text with "Docker-Compose" in it gave docker and
\* docker-compose.
C10_Witness ==
    /\ parsed
    /\ readme.text = <<"D", "o", "c", "k", "e", "r", "-", "C", "o", "m", "p", "o", "s", "e">>
    /\ setup_info["detected_tools"] = <<"docker", "docker-compose">>

\* The spellings of "docker-compose" the claim names, in lower case.
C11_Spellings ==
    {<<"d", "o", "c", "k", "e", "r", "-", "c", "o", "m", "p", "o", "s", "e">>,
     <<"d", "o", "c", "k", "e", "r", " ", "c", "o", "m", "p", "o", "s", "e">>}

\* The positions of the raw text at which one of the spellings starts, in
\* any letter case.
C11_Occurrences ==
    {k \in DOMAIN readme.text :
        /\ k + 13 <= Len(readme.text)
        /\ Lower(SubSeq(readme.text, k, k + 13)) \in C11_Spellings}

\* Neither a letter, a digit nor an underscore touches the occurrence at k.
C11_Delimited(k) ==
    /\ (k = 1 \/ readme.text[k - 1] \notin WordChars)
    /\ (k + 13 = Len(readme.text) \/ readme.text[k + 14] \notin WordChars)

C11_BothDetected ==
    {"docker", "docker-compose"} \subseteq Range(setup_info["detected_tools"])

\* C11, as stated: a text that holds "docker-compose" or "docker compose",
\* in any letter case and whatever surrounds it, gives both docker and
\* docker-compose.
C11_ComposeDetectedAnywhere ==
    (parsed /\ C11_Occurrences # {}) => C11_BothDetected

\* C11, amended: a text that holds "docker-compose" or "docker compose",
\* in any letter case, at a place where no letter, digit or underscore
\* comes right before or right after it, gives both docker and
\* docker-compose.
C11_ComposeDetectedWhenDelimited ==
    (parsed /\ \E k \in C11_Occurrences : C11_Delimited(k)) => C11_BothDetected

\* C11 witness: "-docker compose " (space spelling, between a hyphen and a
\* space) gave both tools.
C11_Witness ==
    /\ parsed
    /\ readme.text = <<"-", "d", "o", "c", "k", "e", "r", " ", "c", "o", "m", "p", "o", "s", "e", " ">>
    /\ C11_BothDetected

(***************************************************************************)
(* The interactive session (run_interactive) and main.                     *)
(***************************************************************************)
\* README texts of the projects the operator can pick in "Set up
\* environment for a specific project" (project["readme_content"], line 404).
SessionTexts ==
    {<<>>,
     <<"N", "o", "d", "e", " ", "a", "n", "d", " ", "n", "p", "m">>,
     <<"n", "p", "m", ",", " ", "g", "i", "t">>}

\* setup_info = self.parse_readme(project["readme_content"]) (line 404),
\* for each of these READMEs.
SessionSetupInfo ==
    [text \in SessionTexts |-> parse_readme([text |-> text, soup |-> <<>>])]

\* What the operator may type at the retry prompt (line 560).
Answers ==
    {<<"y">>, <<"Y">>, <<" ", "y", " ">>, <<"n">>, <<"y", "e", "s">>, <<>>}

\* retry = input().lower().strip(); if retry == 'y' (lines 560-561).
RetryAnswer(answer) == Strip(Lower(answer))

\* Connect guard: attempts counted up to this cap.
AttemptCap == 3

\* Lines 408-413 and 499-503: `if self.install_tool(tool): print(...)
\* else: print(...)`; both outcomes are printed and control goes on from
\* where it is.  (Faulty variant: a failed installation leaves the session.)
SessionAfterFailureRaises(ok, s) == IF ok THEN s ELSE "raised"
SessionAfter(ok, s) == s

\* The except branches of main: the first (lines 553-570) shows the retry
\* prompt, the nested one (lines 567-569) prints and falls off the end.
\* (Faulty variant: every failure shows the prompt.)
AfterFailureAlwaysPrompts(n) == "prompt"
AfterFailure(n) == IF n = 1 THEN "prompt" ELSE "done"

MainInit ==
    /\ mainpc = "connect"
    /\ attempts = 0
    /\ failures = 0
    /\ prompts = 0
    /\ retry = <<>>

\* agent = EnvironmentSetupAgent(github_token, repo_name) and the start of
\* run_interactive (lines 549-552 and 564-566; the constructor's get_repo,
\* line 34, and discover_projects, line 466, reach the remote and may
\* raise).  ok: both succeeded and the menu is shown.
Connect(ok) ==
    /\ mainpc = "connect"
    /\ attempts < AttemptCap
    /\ attempts' = attempts + 1
    /\ IF ok
       THEN /\ mainpc' = "session"
            /\ session' = "menu"
            /\ UNCHANGED failures
       ELSE /\ mainpc' = AfterFailure(attempts')
            /\ failures' = failures + 1
            /\ UNCHANGED session
    /\ UNCHANGED <<prompts, retry, pending, failed>>
    /\ UNCHANGED <<ivars, dvars, pvars>>

\* The retry prompt (lines 559-570).
RetryPrompt(answer) ==
    /\ mainpc = "prompt"
    /\ prompts' = prompts + 1
    /\ retry' = RetryAnswer(answer)
    /\ mainpc' = IF retry' = <<"y">> THEN "connect" ELSE "done"
    /\ UNCHANGED <<attempts, failures>>
    /\ UNCHANGED <<ivars, dvars, pvars, svars>>

\* Menu choice "Set up environment for a specific project" (lines 484-486)
\* up to the loop of setup_environment_for_project (lines 404-407): the
\* README of the selected project is parsed and its detected tools are the
\* loop's list.
ChooseSetup(text) ==
    /\ session = "menu"
    /\ session' = "setup"
    /\ pending' = SessionSetupInfo[text]["detected_tools"]
    /\ failed' = {}
    /\ site' = "setup"
    /\ log' = <<>>
    /\ returned' = <<>>
    /\ UNCHANGED <<sys, stack>>
    /\ UNCHANGED <<dvars, pvars, mvars>>

\* One turn of `for tool in setup_info["detected_tools"]` (lines 407-409):
\* the tool is checked and install_tool is called when the check fails.
SetupNextTool ==
    /\ session = "setup"
    /\ stack = <<>>
    /\ returned = <<>>
    /\ pending # <<>>
    /\ LET t == Head(pending)
       IN  \E c \in check_tool_installed(t, sys) :
            IF NeedsInstall(c)
            THEN /\ stack' = <<Frame(t)>>
                 /\ log' = <<Ev("check", t, c), Ev("call", t, t \in sys)>>
            ELSE /\ stack' = <<>>
                 /\ log' = <<Ev("check", t, c)>>
    /\ pending' = Tail(pending)
    /\ UNCHANGED <<sys, site, returned, session, failed>>
    /\ UNCHANGED <<dvars, pvars, mvars>>

\* install_tool has returned inside the loop (lines 410-413): the outcome is
\* printed and the loop goes on.
SetupReport ==
    /\ session = "setup"
    /\ stack = <<>>
    /\ returned # <<>>
    /\ failed' = IF returned[1] THEN failed ELSE failed \cup {log[2].tool}
    /\ session' = SessionAfter(returned[1], session)
    /\ returned' = <<>>
    /\ log' = <<>>
    /\ UNCHANGED <<sys, stack, site, pending>>
    /\ UNCHANGED <<dvars, pvars, mvars>>

\* The loop is over: the setup guide is printed (lines 415-440).
SetupPrintGuide ==
    /\ session = "setup"
    /\ stack = <<>>
    /\ returned = <<>>
    /\ pending = <<>>
    /\ session' = "guide"
    /\ log' = <<>>
    /\ UNCHANGED <<sys, stack, site, returned, pending, failed>>
    /\ UNCHANGED <<dvars, pvars, mvars>>

\* setup_environment_for_project returns and `while True` shows the menu
\* again (line 469).
ReturnToMenu ==
    /\ session = "guide"
    /\ session' = "menu"
    /\ failed' = {}
    /\ site' = "idle"
    /\ UNCHANGED <<sys, stack, log, returned, pending>>
    /\ UNCHANGED <<dvars, pvars, mvars>>

\* "Install a specific tool" ends (lines 499-505): one of "Successfully
\* installed", "Failed to install", "is already installed" is printed and
\* `while True` shows the menu again.
ReportInstall ==
    /\ session = "busy"
    /\ stack = <<>>
    /\ session' = IF returned = <<>> THEN "menu"
                  ELSE SessionAfter(returned[1], "menu")
    /\ log' = <<>>
    /\ returned' = <<>>
    /\ site' = "idle"
    /\ UNCHANGED <<sys, stack, pending, failed>>
    /\ UNCHANGED <<dvars, pvars, mvars>>

\* "List available projects" (lines 507-510): prints, changes nothing.
ChooseListProjects ==
    /\ session = "menu"
    /\ UNCHANGED vars

\* "List recommended tools" (lines 512-527): parses and checks, prints,
\* changes nothing.
ChooseRecommendedTools ==
    /\ session = "menu"
    /\ UNCHANGED vars

\* "Exit" (lines 529-531): break; run_interactive and main return.
ChooseExit ==
    /\ session = "menu"
    /\ session' = "ended"
    /\ mainpc' = "done"
    /\ UNCHANGED <<attempts, failures, prompts, retry, pending, failed>>
    /\ UNCHANGED <<ivars, dvars, pvars>>

\* An exception leaves run_interactive from the menu: a menu choice made
\* with no project discovered runs discover_projects again (lines 396-397,
\* 449-450), whose remote listing (line 163) may raise.  main's except
\* branch takes over (lines 553, 567).
SessionRaises ==
    /\ session = "menu"
    /\ session' = "raised"
    /\ failures' = failures + 1
    /\ mainpc' = AfterFailure(attempts)
    /\ UNCHANGED <<attempts, prompts, retry, pending, failed>>
    /\ UNCHANGED <<ivars, dvars, pvars>>

\* The steps the program takes by itself, once the operator has chosen.
ProgramStep ==
    \/ ResolveDependency
    \/ RunInstall
    \/ VerifyInstall
    \/ ReportInstall
    \/ SetupNextTool
    \/ SetupReport
    \/ SetupPrintGuide
    \/ ReturnToMenu

RunNext ==
    \/ \E ok \in BOOLEAN : Connect(ok)
    \/ \E answer \in Answers : RetryPrompt(answer)
    \/ \E text \in SessionTexts : ChooseSetup(text)
    \/ \E t \in HostTools : MenuInstallTool(t)
    \/ ChooseListProjects
    \/ ChooseRecommendedTools
    \/ ChooseExit
    \/ SessionRaises
    \/ ResolveDependency
    \/ RunInstall
    \/ VerifyInstall
    \/ ReportInstall
    \/ SetupNextTool
    \/ SetupReport
    \/ SetupPrintGuide
    \/ ReturnToMenu

(***************************************************************************)
(* Properties of the session and of main.                                  *)
(***************************************************************************)
InAction == session \in {"busy", "setup", "guide"}

C12_Safe ==
    /\ InAction => session' \in {"busy", "setup", "guide", "menu"}
    /\ (session = "busy" /\ session' # "busy") => session' = "menu"
    /\ (session = "setup" /\ session' # "setup") =>
            (session' = "guide" /\ pending = <<>> /\ stack = <<>>)
    /\ (session = "setup" /\ stack = <<>> /\ returned = <<>> /\ pending # <<>>) =>
            (log'[1].ev = "check" /\ log'[1].tool = Head(pending))
    /\ (session' = "ended" /\ session # "ended") => session = "menu"

C13_OneRetryPrompt ==
    /\ attempts <= 2
    /\ prompts <= 1
    /\ failures >= 1 => (prompts = 1 \/ mainpc = "prompt")
    /\ failures = 0 => (prompts = 0 /\ mainpc # "prompt")
    /\ failures = 2 => (mainpc = "done" /\ prompts = 1)
    /\ (prompts = 1 /\ retry # <<"y">>) => (mainpc = "done" /\ attempts = 1)
    /\ (mainpc = "done" /\ failures = 0) => (session = "ended" /\ attempts = 1)

\* C13 witness: the second attempt failed too and the process is over after
\* its single prompt.
C13_Witness ==
    /\ mainpc = "done"
    /\ failures = 2
    /\ attempts = 2
    /\ prompts = 1

ParserInit == ParseInit /\ InstallIdle /\ DiscoverIdle /\ SessionOff /\ MainOff

SpecParse == ParserInit /\ [][ParseNext]_vars

DiscoveryInit == DiscoverInit /\ InstallIdle /\ ParseIdle /\ SessionOff /\ MainOff

SpecDiscover == DiscoveryInit /\ [][DiscoverNext]_vars

Init == InstallInit /\ DiscoverIdle /\ ParseIdle /\ SessionOff /\ MainOff

Next == InstallNext

Spec == Init /\ [][Next]_vars

RunInit == InstallInit /\ DiscoverIdle /\ ParseIdle /\ SessionOff /\ MainInit

SpecRun == RunInit /\ [][RunNext]_vars

\* The program's own steps are taken: every subprocess returns.
SpecRunLive == RunInit /\ [][RunNext]_vars /\ WF_vars(ProgramStep)
====
